---- MODULE Spec2Model ----
(***************************************************************************)
(* Delegated identity and token exchange of azure-langgraph-agent.         *)
(*                                                                         *)
(* Part 1 models the browser-side token consumer, class AuthService of     *)
(* frontend/lib/auth.ts: the in-memory tokenStore, the refreshPromise      *)
(* in-flight marker, getTokens / getAuthHeaders / checkAuthStatus,         *)
(* authenticatedFetch with its retry on 401, and logout.                   *)
(* Part 2 models the callback page (AuthCallback and handleCallback).      *)
(* Parts 3 and 4 model the server-side Resource Authorization Gate and     *)
(* Token Cache Manager, whose code (backend/auth.py, backend/secrets.py,   *)
(* backend/app.py) is not among the sources; they follow sections 4.2,     *)
(* 4.4 and 5 of the specification.                                         *)
(*                                                                         *)
(* JavaScript runs each callback to completion, and the continuations of   *)
(* a settled promise run as microtasks before any other event is handled,  *)
(* so one action is one event (a call, or the arrival of a response)       *)
(* together with every continuation it resumes.                            *)
(***************************************************************************)
EXTENDS Integers, Sequences, FiniteSets, TLC

\* ------------------------------------------------------------------ bounds
NumProcs == 2       \* calls made on the AuthService singleton in one run
MaxFetches == 3     \* GET /auth/tokens requests started in one run
MaxLoads == 3       \* loads of the callback page in one run
NumUsers == 2       \* UserKeys
NumResources == 1   \* application resource ids (conversation threads)
NumGateCalls == 3   \* authorize calls in one run
NumCacheCalls == 2  \* getToken calls in one run
MaxTime == 3        \* the clock runs from 0 to MaxTime
MaxCalls == 3       \* calls of one Chat instance that await a token fetch or a request
MaxSends == 2       \* user messages appended by one Chat instance
MaxMounts == 2      \* loads of the chat page in one run
MaxLogouts == 2     \* GET /auth/logout requests of one Chat instance in flight
MaxLogins == 1      \* GET /auth/login requests of one Chat instance in flight

VARIABLES
  tokenStore,       \* AuthService.tokenStore: <<>> (null) or <<TokenData>>
  refreshPromise,   \* AuthService.refreshPromise: 0 (null) or the id of a fetch
  fetches,          \* the promises returned by fetchAndStoreTokens, by id
  nfetch,           \* number of GET /auth/tokens requests started so far
  procs,            \* the callers: position and locals of each call
  page,             \* the callback page: its query parameters and state
  loads,            \* number of loads of the callback page so far
  owner,            \* the OwnershipRecords: resource id -> owner, or NoOwner
  gate,             \* the authorize calls: position and locals of each
  allowed,          \* the <<user, resource>> pairs a create has allowed
  gwrites,          \* number of writes of each resource's OwnershipRecord
  now,              \* the clock
  store,            \* the Token Cache Store: UserKey -> TokenCacheRecord
  cache,            \* the getToken calls: position and locals of each
  wlog,             \* per UserKey, the version each successful write was based on
  session,          \* the backend holds a live session for the browser's cookie
  mounts,           \* number of loads of the chat page so far
  chat,             \* the React state of the Chat instance
  view,             \* the state of the last render: what is on screen, and
                    \* what the handlers and the effects close over
  effects,          \* the effects of the last render that have not run yet
  calls,            \* the asynchronous calls of the Chat instance in flight
  logouts,          \* the handleLogout calls among them: how many
  logins,           \* the handleLogin calls among them: how many
  navigating,       \* window.location.href was set: the page is to go
  obs               \* what the run has shown so far (observations)

authVars == <<tokenStore, refreshPromise, fetches, nfetch, procs>>
cbVars == <<page, loads>>
gateVars == <<owner, gate, allowed, gwrites>>
cacheVars == <<now, store, cache, wlog>>

chatVars ==
  <<session, mounts, chat, view, effects, calls, logouts, logins, navigating,
    obs>>

vars == <<authVars, cbVars, gateVars, cacheVars, chatVars>>

Procs == 1..NumProcs
FetchIds == 1..MaxFetches

\* ----------------------------------------------------------------- values
\* null, and a non-null value x, of a nullable TypeScript type
Null == <<>>
Some(x) == <<x>>

\* the body of the ok answer to GET /auth/tokens request number k
TokenData(k) == [access_token |-> <<"at", k>>, id_token |-> <<"idt", k>>]

\* outcomes of GET /auth/tokens: an ok answer with a JSON body, an ok answer
\* whose body does not parse (response.json() throws), 401, 5xx, and a
\* rejected fetch (network error)
TokenOutcomes == {"ok", "malformed", "unauthorized", "unavailable", "throw"}

\* outcomes of a request to the target url of authenticatedFetch
TargetStatuses == {200, 401, 500}

\* outcomes of GET /auth/logout
LogoutOutcomes == {"ok", "notok", "throw"}

NoHeaders == [n \in {} |-> <<"none", 0>>]

\* options.headers as the callers of this repository pass them, and as a
\* caller that names the auth headers itself would
CallerHeaders ==
  { [n \in {"Content-Type"} |-> <<"json", 0>>],
    [n \in {"Content-Type", "azure-access-token"} |->
       IF n = "Content-Type" THEN <<"json", 0>> ELSE <<"caller", 0>>] }

\* { ...a, ...b }: object spread, b's entries override a's
Spread(a, b) ==
  [n \in (DOMAIN a) \cup (DOMAIN b) |-> IF n \in DOMAIN b THEN b[n] ELSE a[n]]

\* --------------------------------------------------- fetchAndStoreTokens
\* the value fetchAndStoreTokens resolves with
FetchResult(outcome, k) ==
  IF outcome = "ok" THEN Some(TokenData(k)) ELSE Null

StoreAfterFetchKeepsStale(outcome, k, old) ==
  IF outcome = "ok" THEN Some(TokenData(k)) ELSE old

\* tokenStore after fetchAndStoreTokens has run to its end
StoreAfterFetch(outcome, k, old) ==
  IF outcome = "ok" THEN Some(TokenData(k)) ELSE Null

\* --------------------------------------------------------- getAuthHeaders
AuthHeaders(tokens) ==
  IF tokens = Null
    THEN Null
    ELSE Some([n \in {"azure-access-token", "azure-id-token"} |->
                 IF n = "azure-access-token"
                   THEN tokens[1].access_token
                   ELSE tokens[1].id_token])

\* headers of the request authenticatedFetch sends
RequestHeaders(opts, authHeaders) ==
  IF authHeaders = Null THEN opts ELSE Spread(opts, authHeaders[1])

\* ------------------------------------------------------------- getTokens
\* "if (this.refreshPromise) return this.refreshPromise"
JoinsInFlight(rp) == rp # 0

\* the value a token call hands to its caller
TokenCallReturn(op, tokens) ==
  CASE op = "getTokens" -> <<"tokens", tokens>>
    [] op = "getAuthHeaders" -> <<"headers", AuthHeaders(tokens)>>
    [] op = "checkAuthStatus" -> <<"bool", tokens # Null>>

TokenOps == {"getTokens", "getAuthHeaders", "checkAuthStatus"}

RefreshPromiseKept(rp) == rp

\* "const result = await this.refreshPromise; this.refreshPromise = null"
RefreshPromiseAfterAwait(rp) == 0

\* ----------------------------------------------------- authenticatedFetch
RetriesOnEvery401(status, attempt) == status = 401

\* "if (response.status === 401)": reached for the first response only
RetriesOn401(status, attempt) == status = 401 /\ attempt = 1

RefreshPromiseKeptOn401(rp) == rp

\* "this.refreshPromise = null": the 401 branch clears any pending refresh
RefreshPromiseOn401(rp) == 0

RetrySendsAlways(newAuthHeaders) == TRUE

\* "if (newAuthHeaders)": the retry is sent
RetrySends(newAuthHeaders) == newAuthHeaders # Null

\* ----------------------------------------------------------------- logout
\* the two assignments follow the awaited fetch inside the try block
LogoutClears(outcome) == outcome # "throw"

\* ------------------------------------------------------------------- Init
\* a call's locals: the call (op, opts), its position (pc), the fetch it
\* awaits or awaited last (aw), the requests it sent to the target url
\* (sent) and the headers of the last one (req), the last response it got
\* (resp: attempt and status), the status of the first response (st1), the
\* token re-fetches it forced (refetch) and the result of the last one
\* (re), and what the call returned (ret)
IdleProc ==
  [op |-> "none", pc |-> "idle", opts |-> NoHeaders, aw |-> 0,
   sent |-> 0, req |-> NoHeaders, resp |-> <<0, 0>>, st1 |-> 0,
   refetch |-> 0, re |-> Null, ret |-> <<"none", 0>>]

\* a fetchAndStoreTokens promise: its state and, once resolved, whether the
\* backend answered ok with a body that parses, the value the promise
\* resolved with, and whether tokenStore held tokens when the answer came
NoFetch ==
  [state |-> "none", ok |-> FALSE, result |-> Null, hadTokens |-> FALSE]

InitAuth ==
  /\ tokenStore = Null
  /\ refreshPromise = 0
  /\ fetches = [n \in FetchIds |-> NoFetch]
  /\ nfetch = 0
  /\ procs = [p \in Procs |-> IdleProc]

\* ---------------------------------------------------------------- actions
\* getTokens up to its await, called on behalf of p, whose locals become pr,
\* when this.refreshPromise reads rp: join the fetch in flight, or start one
EnterGetTokens(p, pr, rp) ==
  IF JoinsInFlight(rp)
    THEN /\ procs' = [procs EXCEPT ![p] = [pr EXCEPT !.aw = rp]]
         /\ refreshPromise' = rp
         /\ UNCHANGED <<fetches, nfetch>>
    ELSE /\ nfetch < MaxFetches
         /\ nfetch' = nfetch + 1
         /\ fetches' = [fetches EXCEPT ![nfetch + 1] =
                          [NoFetch EXCEPT !.state = "pending"]]
         /\ refreshPromise' = nfetch + 1
         /\ procs' = [procs EXCEPT ![p] = [pr EXCEPT !.aw = nfetch + 1]]

\* the calls of a run are numbered in the order they are made
CanCall(p) ==
  /\ procs[p].pc = "idle"
  /\ p > 1 => procs[p - 1].pc # "idle"

\* getTokens(), getAuthHeaders() or checkAuthStatus() is called
CallTokenOp(p, op) ==
  /\ CanCall(p)
  /\ EnterGetTokens(p, [IdleProc EXCEPT !.op = op, !.pc = "tokens"],
                    refreshPromise)
  /\ UNCHANGED tokenStore
  /\ UNCHANGED <<cbVars, gateVars, cacheVars, chatVars>>

\* authenticatedFetch(url, options) is called
CallAuthenticatedFetch(p, opts) ==
  /\ CanCall(p)
  /\ EnterGetTokens(p, [IdleProc EXCEPT !.op = "authenticatedFetch",
                                        !.pc = "tokens", !.opts = opts],
                    refreshPromise)
  /\ UNCHANGED tokenStore
  /\ UNCHANGED <<cbVars, gateVars, cacheVars, chatVars>>

\* p, resumed with the value its awaited getTokens resolved with
Resumed(pr, result) ==
  IF pr.op \in TokenOps
    THEN [pr EXCEPT !.pc = "done", !.ret = TokenCallReturn(pr.op, result)]
  ELSE IF pr.pc = "tokens"
    THEN [pr EXCEPT !.pc = "req", !.sent = 1,
                    !.req = RequestHeaders(pr.opts, AuthHeaders(result))]
  ELSE IF RetrySends(AuthHeaders(result))
    THEN [pr EXCEPT !.pc = "req", !.sent = pr.sent + 1, !.re = result,
                    !.req = RequestHeaders(pr.opts, AuthHeaders(result))]
    ELSE [pr EXCEPT !.pc = "done", !.re = result,
                    !.ret = <<"response", pr.resp[1], pr.resp[2]>>]

\* the backend answers GET /auth/tokens number n: fetchAndStoreTokens runs
\* to its end, the getTokens that started it clears refreshPromise, and
\* every caller awaiting the promise goes on
TokensResponse(n, outcome) ==
  /\ fetches[n].state = "pending"
  /\ tokenStore' = StoreAfterFetch(outcome, n, tokenStore)
  /\ refreshPromise' = RefreshPromiseAfterAwait(refreshPromise)
  /\ fetches' = [fetches EXCEPT ![n] =
       [state |-> "resolved", ok |-> (outcome = "ok"),
        result |-> FetchResult(outcome, n),
        hadTokens |-> (tokenStore # Null)]]
  /\ procs' = [p \in Procs |->
       IF procs[p].aw = n /\ procs[p].pc \in {"tokens", "retokens"}
         THEN Resumed(procs[p], FetchResult(outcome, n))
         ELSE procs[p]]
  /\ UNCHANGED nfetch
  /\ UNCHANGED <<cbVars, gateVars, cacheVars, chatVars>>

\* a network error of the target request
NetworkError == 0

\* the target url answers p's request (or the fetch rejects)
TargetResponse(p, status) ==
  /\ procs[p].pc = "req"
  /\ LET pr == [procs[p] EXCEPT
                  !.resp = <<procs[p].sent, status>>,
                  !.st1 = IF procs[p].sent = 1 THEN status ELSE @]
     IN
     IF status = NetworkError
       THEN /\ procs' = [procs EXCEPT ![p] =
                  [pr EXCEPT !.pc = "done", !.ret = <<"rejected", pr.sent, 0>>]]
            /\ UNCHANGED <<tokenStore, refreshPromise, fetches, nfetch>>
     ELSE IF RetriesOn401(status, pr.sent)
       THEN /\ tokenStore' = Null
            /\ EnterGetTokens(p, [pr EXCEPT !.pc = "retokens",
                                            !.refetch = pr.refetch + 1],
                              RefreshPromiseOn401(refreshPromise))
       ELSE /\ procs' = [procs EXCEPT ![p] =
                  [pr EXCEPT !.pc = "done",
                             !.ret = <<"response", pr.sent, status>>]]
            /\ UNCHANGED <<tokenStore, refreshPromise, fetches, nfetch>>
  /\ UNCHANGED <<cbVars, gateVars, cacheVars, chatVars>>

\* logout() is called: GET /auth/logout is sent
CallLogout(p) ==
  /\ CanCall(p)
  /\ procs' = [procs EXCEPT ![p] =
       [IdleProc EXCEPT !.op = "logout", !.pc = "logout"]]
  /\ UNCHANGED <<tokenStore, refreshPromise, fetches, nfetch>>
  /\ UNCHANGED <<cbVars, gateVars, cacheVars, chatVars>>

\* GET /auth/logout is answered (or rejects), and logout() runs to its end
LogoutResponse(p, outcome) ==
  /\ procs[p].pc = "logout"
  /\ IF LogoutClears(outcome)
       THEN tokenStore' = Null /\ refreshPromise' = 0
       ELSE UNCHANGED <<tokenStore, refreshPromise>>
  /\ procs' = [procs EXCEPT ![p] =
       [@ EXCEPT !.pc = "done", !.ret = <<"void", outcome>>]]
  /\ UNCHANGED <<fetches, nfetch>>
  /\ UNCHANGED <<cbVars, gateVars, cacheVars, chatVars>>

NextAuth ==
  \/ \E p \in Procs, op \in TokenOps : CallTokenOp(p, op)
  \/ \E p \in Procs, opts \in CallerHeaders : CallAuthenticatedFetch(p, opts)
  \/ \E n \in FetchIds, outcome \in TokenOutcomes : TokensResponse(n, outcome)
  \/ \E p \in Procs, status \in TargetStatuses \cup {NetworkError} :
       TargetResponse(p, status)
  \/ \E p \in Procs : CallLogout(p)
  \/ \E p \in Procs, outcome \in LogoutOutcomes : LogoutResponse(p, outcome)

\* ====================================================== the callback page
\* a string as its characters; "&" stands for the characters that
\* encodeURIComponent escapes
ParamStrings == {<<>>, <<"a">>, <<"a", "&">>}

\* searchParams.get(name): null when the parameter is absent
ParamValues == {Null} \cup {Some(v) : v \in ParamStrings}

\* values of JavaScript that are neither null nor a string, as pairs of
\* their type and a number: undefined, 0, -0 and false.  With null and ''
\* they are the falsy values a JSON body can hold, and Object.is tells any
\* two of them apart
Undefined == <<"undefined", 0>>
Zero == <<"number", 0>>
NegZero == <<"number", -1>>
False == <<"boolean", 0>>

\* JavaScript truthiness of null, of a string and of the values above
Truthy(v) == v # Null /\ Len(v) = 1 /\ v[1] # <<>>

RECURSIVE encodeURIComponent(_)
encodeURIComponent(str) ==
  IF str = <<>> THEN <<>>
  ELSE (IF Head(str) = "&" THEN <<"%", "2", "6">> ELSE <<Head(str)>>)
         \o encodeURIComponent(Tail(str))

\* the url handleCallback requests, as its query parameters
CallbackUrl(code, scopes) ==
  [code |-> Some(encodeURIComponent(code[1])),
   scopes |-> IF Truthy(scopes) THEN Some(encodeURIComponent(scopes[1]))
                                ELSE Null]

NoUrl == [code |-> Null, scopes |-> Null]

CbOutcomes == {"ok", "notok", "throw"}

EffectBranchIgnoresError(code, error) ==
  IF Truthy(code) THEN "send" ELSE "missing"

\* the branch the effect takes: "if (error) ... return", then
\* "if (code && !error) ... else ..."
EffectBranch(code, error) ==
  IF Truthy(error) THEN "error"
  ELSE IF Truthy(code) /\ ~Truthy(error) THEN "send"
  ELSE "missing"

EffectDepsStatus(pg) == <<pg.status>>

\* the dependency array of the effect: "[]"
EffectDeps(pg) == <<>>

\* the page before its first load
NoPage ==
  [pc |-> "unloaded", code |-> Null, error |-> Null, scope |-> Null,
   status |-> "processing", sent |-> 0, url |-> NoUrl,
   redirected |-> FALSE, last |-> "none"]

\* the body of the effect, run on page pg
Effect(pg) ==
  CASE EffectBranch(pg.code, pg.error) = "error" ->
         [pg EXCEPT !.status = "failed_error", !.pc = "settled"]
    [] EffectBranch(pg.code, pg.error) = "send" ->
         [pg EXCEPT !.pc = "awaiting", !.sent = pg.sent + 1,
                    !.url = CallbackUrl(pg.code, pg.scope)]
    [] EffectBranch(pg.code, pg.error) = "missing" ->
         [pg EXCEPT !.status = "missing", !.pc = "settled"]

\* React renders again after a setStatus that changed the status, and runs
\* the effect again if its dependencies changed
Rendered(old, new) ==
  IF new.status # old.status /\ EffectDeps(new) # EffectDeps(old)
    THEN Effect(new) ELSE new

\* the callback page is loaded with the given query parameters, and the
\* effect runs after the first render
CbMount(code, error, scope) ==
  /\ page.pc \in {"unloaded", "settled"}
  /\ loads < MaxLoads
  /\ loads' = loads + 1
  /\ LET pg == [NoPage EXCEPT !.pc = "mounted", !.code = code,
                               !.error = error, !.scope = scope]
     IN page' = Rendered(pg, Effect(pg))
  /\ UNCHANGED <<authVars, gateVars, cacheVars, chatVars>>

\* the then / catch handlers of handleCallback(code, scopes)
AfterCallback(pg, outcome) ==
  CASE outcome = "ok" ->
         [pg EXCEPT !.status = "success", !.redirected = TRUE,
                    !.pc = "settled", !.last = outcome]
    [] outcome = "notok" ->
         [pg EXCEPT !.status = "failed_response", !.pc = "settled",
                    !.last = outcome]
    [] outcome = "throw" ->
         [pg EXCEPT !.status = "error", !.pc = "settled", !.last = outcome]

\* GET /api/auth/callback is answered (or the fetch rejects)
CbResponse(outcome) ==
  /\ page.pc = "awaiting"
  /\ page' = Rendered(page, AfterCallback(page, outcome))
  /\ UNCHANGED loads
  /\ UNCHANGED <<authVars, gateVars, cacheVars, chatVars>>

InitCallback ==
  /\ page = NoPage
  /\ loads = 0

NextCallback ==
  \/ \E code \in ParamValues, error \in ParamValues, scope \in ParamValues :
       CbMount(code, error, scope)
  \/ \E outcome \in CbOutcomes : CbResponse(outcome)

\* ========================================= the Resource Authorization Gate
\* authorize(userKey, resourceId, mode) of section 4.4, with the load and
\* the compare-and-set of the OwnershipRecord as the suspension points of
\* section 5
Users == 1..NumUsers
ResourceIds == 1..NumResources
GateCalls == 1..NumGateCalls
NoOwner == 0
Modes == {"create", "access"}

AccessAllowsAnyOwner(rec, userKey) == rec # NoOwner

\* access: allow iff the OwnershipRecord's owner equals userKey
AccessAllows(rec, userKey) == rec = userKey

BlindWrite(current) == TRUE

\* the create of an OwnershipRecord is a compare-and-set: it succeeds only
\* while no record exists
CreateSucceeds(current) == current = NoOwner

\* create, on a record that exists: allowed for its owner, denied otherwise
Decision(rec, userKey) == IF rec = userKey THEN "Allowed" ELSE "Denied"

\* a call's locals: its arguments, its position, the record it loaded
\* (seen) and reloaded after a lost compare-and-set (seen2), its result,
\* and the users a create had allowed for the resource when it began (pre)
IdleGate ==
  [pc |-> "idle", user |-> 0, res |-> 0, mode |-> "none", seen |-> NoOwner,
   raced |-> FALSE, seen2 |-> NoOwner, result |-> "none", pre |-> {}]

InitGate ==
  /\ owner = [r \in ResourceIds |-> NoOwner]
  /\ gate = [c \in GateCalls |-> IdleGate]
  /\ allowed = {}
  /\ gwrites = [r \in ResourceIds |-> 0]

\* authorize(u, r, mode) is called
Authorize(c, u, r, mode) ==
  /\ gate[c].pc = "idle"
  /\ c > 1 => gate[c - 1].pc # "idle"
  /\ gate' = [gate EXCEPT ![c] =
       [IdleGate EXCEPT !.pc = "load", !.user = u, !.res = r, !.mode = mode,
                        !.pre = {v \in Users : <<v, r>> \in allowed}]]
  /\ UNCHANGED <<owner, allowed, gwrites>>
  /\ UNCHANGED <<authVars, cbVars, cacheVars, chatVars>>

\* the OwnershipRecord is loaded, and the call decides
GateLoad(c) ==
  /\ gate[c].pc = "load"
  /\ LET rec == owner[gate[c].res]
         g == [gate[c] EXCEPT !.seen = rec]
     IN
     gate' = [gate EXCEPT ![c] =
       IF g.mode = "access"
         THEN [g EXCEPT !.pc = "done",
                        !.result = IF AccessAllows(rec, g.user)
                                     THEN "Allowed" ELSE "Denied"]
       ELSE IF rec = NoOwner
         THEN [g EXCEPT !.pc = "cas"]
         ELSE [g EXCEPT !.pc = "done", !.result = Decision(rec, g.user)]]
  /\ allowed' = IF gate'[c].mode = "create" /\ gate'[c].result = "Allowed"
                  THEN allowed \cup {<<gate[c].user, gate[c].res>>}
                  ELSE allowed
  /\ UNCHANGED <<owner, gwrites>>
  /\ UNCHANGED <<authVars, cbVars, cacheVars, chatVars>>

\* create writes the OwnershipRecord by compare-and-set: the first writer
\* wins, the loser reloads
GateCas(c) ==
  /\ gate[c].pc = "cas"
  /\ LET r == gate[c].res
     IN
     IF CreateSucceeds(owner[r])
       THEN /\ owner' = [owner EXCEPT ![r] = gate[c].user]
            /\ gwrites' = [gwrites EXCEPT ![r] = @ + 1]
            /\ allowed' = allowed \cup {<<gate[c].user, r>>}
            /\ gate' = [gate EXCEPT ![c] =
                 [@ EXCEPT !.pc = "done", !.result = "Allowed"]]
       ELSE /\ gate' = [gate EXCEPT ![c] =
                 [@ EXCEPT !.pc = "reload", !.raced = TRUE]]
            /\ UNCHANGED <<owner, gwrites, allowed>>
  /\ UNCHANGED <<authVars, cbVars, cacheVars, chatVars>>

\* the loser of the compare-and-set reloads the record and decides on it
GateReload(c) ==
  /\ gate[c].pc = "reload"
  /\ LET rec == owner[gate[c].res]
     IN
     /\ gate' = [gate EXCEPT ![c] =
          [@ EXCEPT !.pc = "done", !.seen2 = rec,
                    !.result = Decision(rec, gate[c].user)]]
     /\ allowed' = IF Decision(rec, gate[c].user) = "Allowed"
                     THEN allowed \cup {<<gate[c].user, gate[c].res>>}
                     ELSE allowed
  /\ UNCHANGED <<owner, gwrites>>
  /\ UNCHANGED <<authVars, cbVars, cacheVars, chatVars>>

NextGate ==
  \/ \E c \in GateCalls, u \in Users, r \in ResourceIds, mode \in Modes :
       Authorize(c, u, r, mode)
  \/ \E c \in GateCalls : GateLoad(c)
  \/ \E c \in GateCalls : GateCas(c)
  \/ \E c \in GateCalls : GateReload(c)

\* ================================================ the Token Cache Manager
\* getToken(userKey, resource) of section 4.2 over the Token Cache Store
\* of section 6, with the Credential Broker's answers of section 4.1 as
\* inputs.  Every load, provider call and write is a suspension point
\* (section 5); the write of a token just issued ends within CallTimeout.
SafetyMargin == 1   \* the safety margin (60 s in 4.2), in clock ticks
Lifetime == 3       \* the lifetime of a token the provider issues
CallTimeout == 1    \* the bound on one round trip
NumInstances == 2   \* server processes, each de-duplicating its own calls

CacheUsers == {"U1"}
CacheCalls == 1..NumCacheCalls
Instances == 1..NumInstances
CacheResources == {"PRIMARY", "GRAPH"}

\* a CachedToken: its expiry and whether it has a refresh token; exp = 0
\* stands for no entry
NoToken == [exp |-> 0, rt |-> FALSE]
NoTokens == [r \in CacheResources |-> NoToken]

\* a TokenCacheRecord: the version tag and the resource -> CachedToken map;
\* version 0 stands for no record
NoRecord == [ver |-> 0, toks |-> NoTokens]

UsableWithoutMargin(tok, t) == tok.exp # 0 /\ t < tok.exp

\* a token is usable only while now < expires_at - safety margin
Usable(tok, t) == tok.exp # 0 /\ t < tok.exp - SafetyMargin

WritesBlindly(current, expected) == TRUE

\* the Store's write is a compare-and-set on the version tag
VersionMatches(current, expected) == current = expected

RefreshOutcomes == {"ok", "InvalidGrant", "ProviderUnavailable"}
OboOutcomes == {"ok", "ConsentRequired", "InvalidGrant", "ProviderUnavailable"}

\* the failure getToken exposes for a Broker failure (4.2, 7)
Surfaced(outcome) ==
  IF outcome = "InvalidGrant" THEN "ReauthRequired" ELSE outcome

\* a call's locals: its arguments and server process, its position, the
\* ticks spent writing the record (wait), the record it loaded
\* (rec) and the tokens it is writing (next) for resource pend, whether it
\* leads an exchange or which call's exchange it joined, whether it has
\* retried after a version conflict and against which version (lostTo),
\* whether it has written the record, and its result
IdleCache ==
  [pc |-> "idle", inst |-> 0, user |-> "none", res |-> "none", wait |-> 0,
   rec |-> NoRecord, next |-> NoTokens, pend |-> "none",
   leading |-> FALSE, leader |-> 0, retried |-> FALSE, lostTo |-> 0,
   wrote |-> FALSE, result |-> <<"none", NoToken>>]

\* what is left of a call's locals once it has returned
Done(cc, result) ==
  [IdleCache EXCEPT !.pc = "done", !.user = cc.user, !.res = cc.res,
                    !.retried = cc.retried, !.wrote = cc.wrote,
                    !.result = result]

InitCache ==
  /\ now = 0
  /\ store = [u \in CacheUsers |-> NoRecord]
  /\ cache = [c \in CacheCalls |-> IdleCache]
  /\ wlog = [u \in CacheUsers |-> <<>>]

Writing(cc) == cc.pc = "persist"

\* the call that leads the in-flight exchange for cc's key in cc's process
LeadersFor(cc) ==
  {d \in CacheCalls : /\ cache[d].leading /\ cache[d].pc # "done"
                      /\ cache[d].inst = cc.inst
                      /\ cache[d].user = cc.user /\ cache[d].res = cc.res}

Failed(cc, kind) == Done(cc, <<kind, NoToken>>)

Returned(cc, tok) == Done(cc, <<"ok", tok>>)

\* steps 2 to 4: the decision of call cc on the record it has loaded
Decide(cc) ==
  LET primary == cc.rec.toks["PRIMARY"]
  IN
  IF cc.rec.ver = 0 THEN Failed(cc, "NotFound")
  ELSE IF Usable(cc.rec.toks[cc.res], now)
    THEN Returned(cc, cc.rec.toks[cc.res])
  ELSE IF ~cc.leading /\ LeadersFor(cc) # {}
    THEN [cc EXCEPT !.pc = "join",
                    !.leader = CHOOSE d \in LeadersFor(cc) : TRUE]
  ELSE IF cc.res # "PRIMARY" /\ Usable(primary, now)
    THEN [cc EXCEPT !.pc = "obo", !.leading = TRUE]
  ELSE IF primary.rt
    THEN [cc EXCEPT !.pc = "refresh", !.leading = TRUE]
  ELSE Failed([cc EXCEPT !.leading = TRUE], "ReauthRequired")

\* call c goes on as cc; when it has returned, the calls that joined its
\* exchange return the same result
Settle(c, cc) ==
  cache' = [d \in CacheCalls |->
    IF d = c THEN cc
    ELSE IF cc.pc = "done" /\ cache[d].pc = "join" /\ cache[d].leader = c
      THEN Done(cache[d], cc.result)
      ELSE cache[d]]

\* the login callback, for a user whose record holds no usable PRIMARY
\* token: the code is redeemed and the PRIMARY token persisted
Login(u) ==
  /\ ~Usable(store[u].toks["PRIMARY"], now)
  /\ store' = [store EXCEPT ![u] =
       [ver |-> @.ver + 1,
        toks |-> [@.toks EXCEPT !["PRIMARY"] =
                    [exp |-> now + Lifetime, rt |-> TRUE]]]]
  /\ wlog' = [wlog EXCEPT ![u] = Append(@, store[u].ver)]
  /\ UNCHANGED <<now, cache>>
  /\ UNCHANGED <<authVars, cbVars, gateVars, chatVars>>

\* getToken(u, r) is called in server process i
GetToken(c, i, u, r) ==
  /\ cache[c].pc = "idle"
  /\ c > 1 => cache[c - 1].pc # "idle"
  /\ c = 1 => i = 1
  /\ cache' = [cache EXCEPT ![c] =
       [IdleCache EXCEPT !.pc = "load", !.inst = i, !.user = u, !.res = r]]
  /\ UNCHANGED <<now, store, wlog>>
  /\ UNCHANGED <<authVars, cbVars, gateVars, chatVars>>

\* step 1 (and the reload of step 5): the record is loaded, and the call
\* decides on it
CacheLoad(c) ==
  /\ cache[c].pc \in {"load", "reload"}
  /\ Settle(c, Decide([cache[c] EXCEPT !.rec = store[cache[c].user]]))
  /\ UNCHANGED <<now, store, wlog>>
  /\ UNCHANGED <<authVars, cbVars, gateVars, chatVars>>

\* step 3: Broker.refresh answers
RefreshResponse(c, outcome) ==
  /\ cache[c].pc = "refresh"
  /\ Settle(c,
       IF outcome = "ok"
         THEN [cache[c] EXCEPT
                 !.pc = "persist", !.wait = 0, !.pend = "PRIMARY",
                 !.next = [cache[c].rec.toks EXCEPT !["PRIMARY"] =
                             [exp |-> now + Lifetime, rt |-> TRUE]]]
         ELSE Failed(cache[c], Surfaced(outcome)))
  /\ UNCHANGED <<now, store, wlog>>
  /\ UNCHANGED <<authVars, cbVars, gateVars, chatVars>>

\* step 4: Broker.exchangeOnBehalfOf answers
OboResponse(c, outcome) ==
  /\ cache[c].pc = "obo"
  /\ Settle(c,
       IF outcome = "ok"
         THEN [cache[c] EXCEPT
                 !.pc = "persist", !.wait = 0, !.pend = cache[c].res,
                 !.next = [cache[c].rec.toks EXCEPT ![cache[c].res] =
                             [exp |-> now + Lifetime, rt |-> FALSE]]]
         ELSE Failed(cache[c], Surfaced(outcome)))
  /\ UNCHANGED <<now, store, wlog>>
  /\ UNCHANGED <<authVars, cbVars, gateVars, chatVars>>

\* step 5: the record is written by compare-and-set on the version tag; on
\* a conflict the call reloads and decides again, once
Persist(c) ==
  /\ cache[c].pc = "persist"
  /\ LET cc == cache[c]
         written == [ver |-> cc.rec.ver + 1, toks |-> cc.next]
     IN
     IF VersionMatches(store[cc.user].ver, cc.rec.ver)
       THEN /\ store' = [store EXCEPT ![cc.user] = written]
            /\ wlog' = [wlog EXCEPT ![cc.user] = Append(@, cc.rec.ver)]
            /\ Settle(c,
                 IF cc.pend = cc.res
                   THEN Returned([cc EXCEPT !.rec = written, !.wrote = TRUE],
                                 cc.next[cc.res])
                   ELSE [cc EXCEPT !.rec = written, !.pc = "obo",
                                   !.wait = 0, !.wrote = TRUE,
                                   !.next = NoTokens, !.pend = "none"])
       ELSE /\ Settle(c,
                 IF cc.retried
                   THEN Failed(cc, "ProviderUnavailable")
                   ELSE [cc EXCEPT !.pc = "reload", !.wait = 0,
                                   !.next = NoTokens, !.pend = "none",
                                   !.retried = TRUE,
                                   !.lostTo = store[cc.user].ver])
            /\ UNCHANGED <<store, wlog>>
  /\ UNCHANGED now
  /\ UNCHANGED <<authVars, cbVars, gateVars, chatVars>>

\* the clock advances; no write outlasts CallTimeout
Tick ==
  /\ now < MaxTime
  /\ \A c \in CacheCalls : Writing(cache[c]) => cache[c].wait < CallTimeout
  /\ now' = now + 1
  /\ cache' = [c \in CacheCalls |->
       IF Writing(cache[c]) THEN [cache[c] EXCEPT !.wait = @ + 1]
                            ELSE cache[c]]
  /\ UNCHANGED <<store, wlog>>
  /\ UNCHANGED <<authVars, cbVars, gateVars, chatVars>>

NextCache ==
  \/ \E u \in CacheUsers : Login(u)
  \/ \E c \in CacheCalls, i \in Instances, u \in CacheUsers, r \in CacheResources :
       GetToken(c, i, u, r)
  \/ \E c \in CacheCalls : CacheLoad(c)
  \/ \E c \in CacheCalls, outcome \in RefreshOutcomes :
       RefreshResponse(c, outcome)
  \/ \E c \in CacheCalls, outcome \in OboOutcomes : OboResponse(c, outcome)
  \/ \E c \in CacheCalls : Persist(c)
  \/ Tick

\* ================================================================== specs
\* ======================================================= the Chat component
\* frontend/components/Chat.tsx, on top of the AuthService singleton.  The
\* calls of the component are kept in slots; the GET /auth/tokens request a
\* call starts is named by the slot of that call.
CallIds == 1..MaxCalls

\* the text of the input box: 0 is the empty string, Blank a string of
\* white space, k > 0 the k-th of the texts the user types
Blank == -1
trim(text) == IF text = Blank THEN 0 ELSE text

\* the texts sendMessage can be called with
InputTexts == {0, Blank} \cup (1..MaxSends)

\* the state of a Chat instance after useState
NoChat ==
  [isAuthenticated |-> FALSE, threadId |-> Null, messages |-> <<>>,
   isLoading |-> FALSE, pendingMessage |-> 0, shouldSendMessage |-> FALSE]

\* a call's locals: createThread ("thread"), deliverMessage ("run") or
\* checkAuthStatus ("check"), its position, the token fetch it awaits, the
\* requests it sent to its url, the pendingMessage it closed over, and, for
\* a call that started a token fetch, whether the session was live when the
\* request was sent.  handleLogout has no locals: its calls are counted
IdleCall ==
  [kind |-> "none", pc |-> "idle", aw |-> 0, sent |-> 0, msg |-> 0,
   live |-> FALSE]

\* observations of one Chat instance: user messages appended (nsent), the
\* texts that a POST /runs/wait request has carried (posted), whether a
\* POST /api/threads request was sent (tposted), and whether a handleLogout
\* has completed since the last login (loggedOut)
NoObs ==
  [nsent |-> 0, posted |-> {}, tposted |-> FALSE, loggedOut |-> FALSE]

\* the values of a render that its handlers, its effects and the effects'
\* dependencies read
Closure(ch) ==
  [isAuthenticated |-> ch.isAuthenticated, threadId |-> ch.threadId,
   isLoading |-> ch.isLoading, pendingMessage |-> ch.pendingMessage,
   shouldSendMessage |-> ch.shouldSendMessage]

InitChat ==
  /\ session = FALSE
  /\ mounts = 0
  /\ chat = NoChat
  /\ view = Closure(NoChat)
  /\ effects = {}
  /\ calls = [c \in CallIds |-> IdleCall]
  /\ logouts = 0
  /\ logins = 0
  /\ navigating = FALSE
  /\ obs = NoObs

\* the state an event handler works on, and leaves behind
World ==
  [tokenStore |-> tokenStore, refreshPromise |-> refreshPromise,
   session |-> session, chat |-> chat, view |-> view,
   effects |-> effects, calls |-> calls, logouts |-> logouts,
   logins |-> logins, navigating |-> navigating, obs |-> obs, ok |-> TRUE]

\* the state a handler leaves behind becomes the next state
Commit(world) ==
  \E w \in {world} :
    /\ w.ok
    /\ tokenStore' = w.tokenStore
    /\ refreshPromise' = w.refreshPromise
    /\ chat' = w.chat
    /\ view' = w.view
    /\ effects' = w.effects
    /\ calls' = w.calls
    /\ logouts' = w.logouts
    /\ logins' = w.logins
    /\ navigating' = w.navigating
    /\ obs' = w.obs

\* the GET /auth/tokens request started by call n is in flight
Fetching(cs, n) == cs[n].pc \in {"tokens", "retokens"} /\ cs[n].aw = n

\* getTokens up to its await, entered by call c, which goes to position pc
ChatGetTokens(w, c, pc) ==
  IF JoinsInFlight(w.refreshPromise)
    THEN [w EXCEPT !.calls[c].pc = pc, !.calls[c].aw = w.refreshPromise]
    ELSE [w EXCEPT !.calls[c].pc = pc, !.calls[c].aw = c,
                   !.calls[c].live = w.session, !.refreshPromise = c]

FreeSlots(w) == {c \in CallIds : w.calls[c].pc = "idle"}

\* a call of the given kind begins: checkAuthStatus, createThread and
\* deliverMessage reach getTokens at once
StartCall(w, kind, msg) ==
  IF FreeSlots(w) = {} THEN [w EXCEPT !.ok = FALSE]
  ELSE LET c == CHOOSE x \in FreeSlots(w) : \A y \in FreeSlots(w) : x <= y
       IN ChatGetTokens(
            [w EXCEPT !.calls[c] =
               [IdleCall EXCEPT !.kind = kind, !.msg = msg]],
            c, "tokens")

\* --------------------------------------------------------------- sendMessage
\* "if (!inputMessage.trim() || isLoading) return"
SendBlocked(inputMessage, isLoading) == trim(inputMessage) = 0 \/ isLoading

\* a message of the list: its sender and its content: the text the user
\* sent, or the agent's last ai message, 'No response received' or the
\* error text
Message(sender, content) == [sender |-> sender, content |-> content]

\* sendMessage, called with the isLoading of the render its button and key
\* handler belong to
sendMessage(ch, isLoading, inputMessage) ==
  IF SendBlocked(inputMessage, isLoading) THEN ch
  ELSE [ch EXCEPT !.messages = Append(@, Message("user", <<"m", inputMessage>>)),
                  !.pendingMessage = inputMessage,
                  !.shouldSendMessage = TRUE]

\* ------------------------------------------------------------ the responses
\* a response to POST /api/threads or POST /runs/wait: its status
\* (NetworkError when the fetch rejects) and its body.  What the caller
\* reads from the body, the thread_id or the content of the last ai
\* message, is a string with characters ("ai"), is not there ("noai"), is
\* '' ("empty"), 0 ("zero"), -0 ("negzero"), false ("false") or null
\* ("null"); or the body is no JSON object at all ("bad")
Bodies == {"ai", "noai", "empty", "zero", "negzero", "false", "null", "bad"}

TargetResponses ==
  {<<200, body>> : body \in Bodies}
    \cup {<<401, "bad">>, <<500, "bad">>, <<NetworkError, "bad">>}

\* response.ok
Ok(resp) == resp[1] = 200

\* threadData.thread_id
thread_id(body) ==
  CASE body = "ai" -> Some(<<"t">>)
    [] body = "noai" -> Undefined
    [] body = "empty" -> Some(<<>>)
    [] body = "zero" -> Zero
    [] body = "negzero" -> NegZero
    [] body = "false" -> False
    [] body = "null" -> Null

\* createThread after its await: the threadId it leaves, which is the one
\* it found when it throws and logs
ThreadCreated(threadId, resp) ==
  IF ~Ok(resp) \/ resp[2] = "bad" THEN threadId ELSE thread_id(resp[2])

\* deliverMessage: the content of the message it appends
AgentContent(resp) ==
  IF ~Ok(resp) \/ resp[2] = "bad" THEN "error"
  ELSE IF resp[2] = "ai" THEN "ai"
  ELSE "No response received"

AppendsNothingOnError(ch, content) ==
  IF content = "error" THEN ch.messages
  ELSE Append(ch.messages, Message("AAD Agent", <<content, 0>>))

\* the message list after deliverMessage's try / catch
AfterRun(ch, content) ==
  Append(ch.messages, Message("AAD Agent", <<content, 0>>))

\* -------------------------------------------------------------- the requests
\* call c sends its request to its url
SendRequest(w, c) ==
  LET cl == w.calls[c] IN
  [w EXCEPT !.calls[c].pc = "req", !.calls[c].sent = cl.sent + 1,
            !.obs.posted = IF cl.kind = "run" THEN @ \cup {cl.msg} ELSE @,
            !.obs.tposted = @ \/ cl.kind = "thread"]

\* authenticatedFetch of call c returns resp (or rejects), and the rest of
\* createThread or deliverMessage runs
Return(w, c, resp) ==
  LET cl == w.calls[c]
      w1 == [w EXCEPT !.calls[c] = IdleCall]
  IN IF cl.kind = "thread"
       THEN [w1 EXCEPT !.chat.threadId = ThreadCreated(@, resp)]
       ELSE [w1 EXCEPT
               !.chat.messages = AfterRun(w.chat, AgentContent(resp)),
               !.chat.isLoading = FALSE,
               !.chat.pendingMessage = 0]

\* call c, resumed with the value its awaited getTokens resolved with
ChatResumed(w, c, result) ==
  LET cl == w.calls[c] IN
  IF cl.kind = "check"
    THEN [w EXCEPT !.calls[c] = IdleCall,
                   !.chat.isAuthenticated = (result # Null)]
  ELSE IF cl.pc = "tokens" THEN SendRequest(w, c)
  ELSE IF RetrySends(AuthHeaders(result)) THEN SendRequest(w, c)
  ELSE Return(w, c, <<401, "bad">>)

\* every call from slot c on that awaits fetch n is resumed
RECURSIVE ResumeAll(_, _, _, _, _)
ResumeAll(w, before, n, result, c) ==
  IF c > MaxCalls THEN w
  ELSE ResumeAll(IF before[c].aw = n /\ before[c].pc \in {"tokens", "retokens"}
                   THEN ChatResumed(w, c, result) ELSE w,
                 before, n, result, c + 1)

\* ---------------------------------------------------------------- the effects
\* deliverMessage up to its await, with the threadId and pendingMessage of
\* the render whose send effect calls it
deliverMessage(w) ==
  IF ~Truthy(w.view.threadId) \/ w.view.pendingMessage = 0 THEN w
  ELSE StartCall([w EXCEPT !.chat.isLoading = TRUE,
                           !.chat.shouldSendMessage = FALSE],
                 "run", w.view.pendingMessage)

ThreadDeps(cl) == <<cl.isAuthenticated, cl.threadId>>
SendDeps(cl) == <<cl.threadId, cl.shouldSendMessage, cl.pendingMessage>>

\* "if (isAuthenticated && !threadId)"
ThreadEffectFires(cl) == cl.isAuthenticated /\ ~Truthy(cl.threadId)

\* "if (threadId && shouldSendMessage && pendingMessage)"
SendEffectFires(cl) ==
  Truthy(cl.threadId) /\ cl.shouldSendMessage /\ cl.pendingMessage # 0

\* the effects React is to run after a render with the values new that
\* follows a render with the values old: those whose dependencies differ;
\* one whose condition is false does nothing and is left out
EffectsOf(old, new) ==
  {e \in {"thread"} : ThreadDeps(new) # ThreadDeps(old) /\ ThreadEffectFires(new)}
    \cup
  {e \in {"send"} : SendDeps(new) # SendDeps(old) /\ SendEffectFires(new)}

\* React runs the effects of the render on screen that have not run yet, in
\* the order of the component: the mount effect, which calls checkAuthStatus
\* ("check") and is an effect of the first render only, the thread effect
\* and the send effect.  The state that deliverMessage sets is not on
\* screen before a later render
RunEffects(w) ==
  LET w0 == IF "check" \in w.effects THEN StartCall(w, "check", 0) ELSE w
      w1 == IF "thread" \in w.effects THEN StartCall(w0, "thread", 0) ELSE w0
      w2 == IF "send" \in w.effects THEN deliverMessage(w1) ELSE w1
  IN [w2 EXCEPT !.effects = {}]

\* React renders the component with the values new: it first runs the
\* effects of the render before that have not run yet, then commits
Render(new, w) ==
  LET w1 == RunEffects(w)
  IN [w1 EXCEPT !.view = new, !.effects = EffectsOf(w.view, new)]

\* ---------------------------------------------------------------- the actions
Mounted == mounts > 0

\* the chat page is loaded: after a sign-in that went through the provider
\* and the callback page (login), to which handleLogin has sent the browser
\* unless this is the first load, or by a reload or a return without
\* sign-in.  The page before is gone with its calls; the page starts anew,
\* the AuthService singleton with it.  The first render puts the sign-in
\* view on screen; its mount effect, which calls checkAuthStatus, runs in a
\* later task
Mount(login) ==
  /\ mounts < MaxMounts
  /\ login => mounts = 0 \/ navigating
  /\ mounts' = mounts + 1
  /\ session' = (login \/ session)
  /\ Commit(
       [tokenStore |-> Null, refreshPromise |-> 0,
        session |-> (login \/ session), chat |-> NoChat,
        view |-> Closure(NoChat), effects |-> {"check"},
        calls |-> [c \in CallIds |-> IdleCall], logouts |-> 0,
        logins |-> 0, navigating |-> FALSE,
        obs |-> [NoObs EXCEPT !.loggedOut = ~login /\ obs.loggedOut],
        ok |-> TRUE])
  /\ UNCHANGED <<fetches, nfetch, procs>>
  /\ UNCHANGED <<cbVars, gateVars, cacheVars>>

\* the answer to the GET /auth/tokens request started by call n arrives.
\* The backend answers ok only for a live session, which the session was,
\* if ever while the request was on its way, when the request was sent; a
\* 401 tells that the session is gone.  The continuations set the state;
\* React renders it in a later task
ChatTokensResponse(n, outcome) ==
  /\ Fetching(calls, n)
  /\ outcome = "ok" => calls[n].live
  /\ session' = (session /\ outcome # "unauthorized")
  /\ LET w1 == [World EXCEPT
                  !.tokenStore = StoreAfterFetch(outcome, n, tokenStore),
                  !.refreshPromise = RefreshPromiseAfterAwait(refreshPromise)]
     IN Commit(ResumeAll(w1, calls, n, FetchResult(outcome, n), 1))
  /\ UNCHANGED <<mounts, fetches, nfetch, procs>>
  /\ UNCHANGED <<cbVars, gateVars, cacheVars>>

\* the request of call c is answered (or rejects)
ChatTargetResponse(c, resp) ==
  /\ calls[c].pc = "req"
  /\ LET w == World IN
     Commit(
       IF resp[1] = NetworkError THEN Return(w, c, resp)
       ELSE IF RetriesOn401(resp[1], calls[c].sent)
         THEN ChatGetTokens(
                [w EXCEPT !.tokenStore = Null,
                          !.refreshPromise = RefreshPromiseOn401(@)],
                c, "retokens")
         ELSE Return(w, c, resp))
  /\ UNCHANGED <<session, mounts, fetches, nfetch, procs>>
  /\ UNCHANGED <<cbVars, gateVars, cacheVars>>

\* the user sends the text of the input box (button or Enter key of the
\* chat view on screen); texts are numbered in the order of their first
\* use.  At the end of the event React renders the state that sendMessage
\* set and runs the effects of that render; state set by continuations and
\* effects that is not rendered yet stays so
SendMessage(text) ==
  /\ Mounted /\ view.isAuthenticated
  /\ obs.nsent < MaxSends
  /\ trim(text) <= obs.nsent + 1
  /\ LET ch == sendMessage(chat, view.isLoading, text)
     IN IF ch = chat THEN Commit(World)
        ELSE Commit(RunEffects(Render(
               [view EXCEPT !.pendingMessage = ch.pendingMessage,
                            !.shouldSendMessage = ch.shouldSendMessage],
               [World EXCEPT !.chat = ch, !.obs.nsent = @ + 1])))
  /\ UNCHANGED <<session, mounts, fetches, nfetch, procs>>
  /\ UNCHANGED <<cbVars, gateVars, cacheVars>>

\* the user clicks Logout in the chat view on screen: handleLogout up to its
\* await, which sends GET /auth/logout
HandleLogout ==
  /\ Mounted /\ view.isAuthenticated
  /\ logouts < MaxLogouts
  /\ Commit([World EXCEPT !.logouts = @ + 1])
  /\ UNCHANGED <<session, mounts, fetches, nfetch, procs>>
  /\ UNCHANGED <<cbVars, gateVars, cacheVars>>

\* the user clicks Sign in in the sign-in view on screen: handleLogin up to
\* its await, where getAuthUrl has sent GET /auth/login
HandleLogin ==
  /\ Mounted /\ ~view.isAuthenticated
  /\ logins < MaxLogins
  /\ Commit([World EXCEPT !.logins = @ + 1])
  /\ UNCHANGED <<session, mounts, fetches, nfetch, procs>>
  /\ UNCHANGED <<cbVars, gateVars, cacheVars>>

\* getAuthUrl returns data.auth_url when the answer is ok and its body
\* parses, and throws otherwise
LoginOutcomes == {"ok", "malformed", "notok", "throw"}

\* a GET /auth/login is answered (or rejects): handleLogin sets
\* window.location.href, after which the browser leaves the page, or logs
\* the error
ChatLoginResponse(outcome) ==
  /\ logins > 0
  /\ Commit([World EXCEPT !.logins = @ - 1,
                          !.navigating = @ \/ outcome = "ok"])
  /\ UNCHANGED <<session, mounts, fetches, nfetch, procs>>
  /\ UNCHANGED <<cbVars, gateVars, cacheVars>>

\* a render task: React renders the state that continuations and effects
\* have set since the render on screen; the effects of this render run in a
\* later task
RenderTask ==
  /\ Mounted
  /\ \E new \in {Closure(RunEffects(World).chat)} :
       new # view /\ Commit(Render(new, World))
  /\ UNCHANGED <<session, mounts, fetches, nfetch, procs>>
  /\ UNCHANGED <<cbVars, gateVars, cacheVars>>

\* React runs the effects of the render on screen
EffectsTask ==
  /\ Mounted /\ effects # {}
  /\ Commit(RunEffects(World))
  /\ UNCHANGED <<session, mounts, fetches, nfetch, procs>>
  /\ UNCHANGED <<cbVars, gateVars, cacheVars>>

\* a GET /auth/logout is answered (or rejects): logout() runs to its end,
\* then the rest of handleLogout; an ok answer tells that the session is
\* ended
ChatLogoutResponse(outcome) ==
  /\ logouts > 0
  /\ session' = (session /\ outcome # "ok")
  /\ LET w == World
         w1 == IF LogoutClears(outcome)
                 THEN [w EXCEPT !.tokenStore = Null, !.refreshPromise = 0]
                 ELSE w
     IN Commit([w1 EXCEPT !.logouts = @ - 1,
                          !.chat.isAuthenticated = FALSE,
                          !.chat.messages = <<>>,
                          !.obs.loggedOut = TRUE])
  /\ UNCHANGED <<mounts, fetches, nfetch, procs>>
  /\ UNCHANGED <<cbVars, gateVars, cacheVars>>

NextChat ==
  \/ \E login \in BOOLEAN : Mount(login)
  \/ \E n \in CallIds, outcome \in TokenOutcomes : ChatTokensResponse(n, outcome)
  \/ \E c \in CallIds, resp \in TargetResponses : ChatTargetResponse(c, resp)
  \/ \E text \in InputTexts : SendMessage(text)
  \/ HandleLogout
  \/ HandleLogin
  \/ RenderTask
  \/ EffectsTask
  \/ \E outcome \in LogoutOutcomes : ChatLogoutResponse(outcome)
  \/ \E outcome \in LoginOutcomes : ChatLoginResponse(outcome)

Init == InitAuth /\ InitCallback /\ InitGate /\ InitCache /\ InitChat

\* the AuthService singleton and its callers
Spec == Init /\ [][NextAuth]_vars

\* every GET /auth/tokens request is answered, or its fetch rejects
TokensResponses ==
  \E n \in FetchIds, outcome \in TokenOutcomes : TokensResponse(n, outcome)

\* options.headers as Chat.tsx passes them
ChatHeaders == {h \in CallerHeaders : DOMAIN h = {"Content-Type"}}

\* the AuthService singleton as the Chat component calls it
NextAuthLive ==
  \/ \E p \in Procs, op \in TokenOps : CallTokenOp(p, op)
  \/ \E p \in Procs, opts \in ChatHeaders : CallAuthenticatedFetch(p, opts)
  \/ TokensResponses
  \/ \E p \in Procs, status \in TargetStatuses \cup {NetworkError} :
       TargetResponse(p, status)
  \/ \E p \in Procs : CallLogout(p)
  \/ \E p \in Procs, outcome \in LogoutOutcomes : LogoutResponse(p, outcome)

\* the AuthService singleton, with every token request answered in the end
SpecLive == Init /\ [][NextAuthLive]_vars /\ WF_vars(TokensResponses)

\* the callback page
SpecCallback == Init /\ [][NextCallback]_vars

\* the Resource Authorization Gate
SpecGate == Init /\ [][NextGate]_vars

\* the Token Cache Manager
SpecCache == Init /\ [][NextCache]_vars

\* the Chat component on the AuthService singleton
SpecChat == Init /\ [][NextChat]_vars

\* the answers to the requests the browser has sent, by request
ChatTokensResponses ==
  \E n \in CallIds, outcome \in TokenOutcomes : ChatTokensResponse(n, outcome)

ChatTargetResponses ==
  \E c \in CallIds, resp \in TargetResponses : ChatTargetResponse(c, resp)

ChatLogoutResponses ==
  \E outcome \in LogoutOutcomes : ChatLogoutResponse(outcome)

ChatLoginResponses ==
  \E outcome \in LoginOutcomes : ChatLoginResponse(outcome)

\* the Chat component, with every request answered (or its fetch rejecting)
\* and every state rendered in the end
SpecChatLive ==
  /\ Init /\ [][NextChat]_vars
  /\ WF_vars(ChatTokensResponses) /\ WF_vars(ChatTargetResponses)
  /\ WF_vars(ChatLogoutResponses) /\ WF_vars(ChatLoginResponses)
  /\ WF_vars(RenderTask) /\ WF_vars(EffectsTask)

\* a refreshPromise that is set names a fetch in flight
RefreshPromisePending ==
  refreshPromise # 0 => fetches[refreshPromise].state = "pending"

\* ----------------------------------------------------------------- claims
\* the GET /auth/tokens requests in flight
InFlight == {n \in FetchIds : fetches[n].state = "pending"}

\* the tokens a finished token call was resumed with
TokensOf(p) == fetches[procs[p].aw].result

Finished(p, op) == procs[p].op = op /\ procs[p].pc = "done"

\* C1: single-flight token fetch: under any interleaving of getTokens,
\* getAuthHeaders, checkAuthStatus, authenticatedFetch and logout calls at
\* most one GET /auth/tokens request is in flight at any moment, and every
\* caller that waited on a request got that request's result.
C1_SingleFlightTokenFetch ==
  /\ Cardinality(InFlight) <= 1
  /\ \A p \in Procs :
       procs[p].op \in TokenOps /\ procs[p].pc = "done"
         => procs[p].ret = TokenCallReturn(procs[p].op, TokensOf(p))

\* C3: authenticatedFetch sends the target request at most twice and forces
\* at most one invalidation and token re-fetch, exactly when the first
\* response was 401; the second request is sent only if that re-fetch gave
\* tokens; if it gave none the first (401) response is returned; the
\* response to the retry is returned whatever its status.
C3_OneRetryOn401 ==
  \A p \in Procs :
    procs[p].op = "authenticatedFetch" =>
      /\ procs[p].sent <= 2
      /\ procs[p].refetch <= 1
      /\ (procs[p].refetch = 1) = (procs[p].st1 = 401)
      /\ procs[p].sent = 2 => procs[p].st1 = 401 /\ procs[p].re # Null
      /\ procs[p].pc = "done" /\ procs[p].st1 = 401 /\ procs[p].re = Null
           => procs[p].sent = 1 /\ procs[p].ret = <<"response", 1, 401>>
      /\ procs[p].pc = "done" /\ procs[p].sent = 2
           => procs[p].ret \in {<<"response", 2, st>> : st \in TargetStatuses}
                                 \cup {<<"rejected", 2, 0>>}

\* C3's case: the retry was sent, was answered 401 too, and that response
\* was returned
C3_Witness ==
  \E p \in Procs :
    /\ Finished(p, "authenticatedFetch")
    /\ procs[p].sent = 2
    /\ procs[p].ret = <<"response", 2, 401>>

\* C4: a failed token fetch never falls back to earlier tokens: when GET
\* /auth/tokens is answered not ok, or throws, the fetch resolves with null,
\* tokenStore is null right after it, and the getTokens calls awaiting it
\* return null.
C4_FailedFetchDropsTokens ==
  [][\A n \in FetchIds :
       fetches[n].state = "pending" /\ fetches'[n].state = "resolved"
         /\ ~fetches'[n].ok
       => /\ tokenStore' = Null
          /\ fetches'[n].result = Null
          /\ \A p \in Procs :
               procs[p].aw = n /\ procs[p].pc = "tokens"
                 /\ procs[p].op = "getTokens"
               => procs'[p].ret = <<"tokens", Null>>]_vars

\* C4's case: a fetch failed while tokenStore held the tokens of an earlier
\* fetch, and a getTokens call was resumed with its result
C4_Witness ==
  \E n \in FetchIds, p \in Procs :
    /\ fetches[n].state = "resolved" /\ ~fetches[n].ok
    /\ fetches[n].hadTokens
    /\ Finished(p, "getTokens") /\ procs[p].aw = n
    /\ tokenStore = Null

\* C10: when logout() completes, tokenStore and refreshPromise are null,
\* whatever the outcome of GET /auth/logout (ok, non-ok status or network
\* error).
C10_LogoutAlwaysClears ==
  [][\A p \in Procs :
       procs[p].pc = "logout" /\ procs'[p].pc = "done"
         => tokenStore' = Null /\ refreshPromise' = 0]_vars

\* C8: loaded with an error parameter (provider error, denied consent) the
\* callback page sends no request to /api/auth/callback, also when a code is
\* present, and does not redirect to "/"; it redirects only after
\* /api/auth/callback answered ok.
C8_ErrorNeverRedeemsCode ==
  /\ Truthy(page.error) /\ page.pc # "unloaded"
       => page.sent = 0 /\ ~page.redirected /\ page.url = NoUrl
  /\ page.redirected => page.sent >= 1 /\ page.last = "ok"

\* C8's case: the page was loaded with an error and a code, and has settled
C8_Witness ==
  /\ Truthy(page.error) /\ Truthy(page.code)
  /\ page.pc = "settled" /\ page.status = "failed_error"

\* C9: one load of the callback page sends at most one request for the code
\* to /api/auth/callback, and sends none after a non-ok answer or a network
\* error.
C9_CodeRedeemedAtMostOnce ==
  /\ page.sent <= 1
  /\ page.last \in {"notok", "throw"} => page.pc = "settled" /\ page.sent = 1

\* C9's case: the request for the code was answered not ok, or failed
C9_Witness ==
  /\ page.pc = "settled" /\ page.sent = 1
  /\ page.last \in {"notok", "throw"}
  /\ page.url.code = Some(encodeURIComponent(page.code[1]))

\* the users a create has allowed as owner of resource r
AllowedOwners(r) == {u \in Users : <<u, r>> \in allowed}

GateDone(c) == gate[c].pc = "done"

\* C5: once authorize(u, r, create) has allowed u, every later
\* authorize(u, r, access) allows and every later authorize(v, r, access or
\* create) with v # u denies; access to a resource without OwnershipRecord
\* is denied, like access by a user who is not the owner.
C5_OwnershipGate ==
  \A c \in GateCalls :
    GateDone(c) =>
      /\ gate[c].mode = "access" /\ gate[c].user \in gate[c].pre
           => gate[c].result = "Allowed"
      /\ (\E u \in gate[c].pre : u # gate[c].user)
           => gate[c].result = "Denied"
      /\ gate[c].mode = "access" /\ gate[c].seen # gate[c].user
           => gate[c].result = "Denied"

\* C5's case: after a create by u was allowed, an access by u was allowed
\* and a call by another user was denied
C5_Witness ==
  \E c, d \in GateCalls :
    /\ GateDone(c) /\ gate[c].mode = "access"
    /\ gate[c].user \in gate[c].pre /\ gate[c].result = "Allowed"
    /\ GateDone(d) /\ gate[d].res = gate[c].res
    /\ gate[c].user \in gate[d].pre /\ gate[d].user # gate[c].user
    /\ gate[d].result = "Denied"

\* C6: the OwnershipRecord of a resource is written at most once, so its
\* owner never changes; no two different users are both allowed as creator
\* of one resource; a create is allowed only for the record's owner and a
\* create that lost the race against another user's is denied.
C6_FirstCreateWins ==
  /\ \A r \in ResourceIds :
       /\ gwrites[r] <= 1
       /\ Cardinality(AllowedOwners(r)) <= 1
       /\ AllowedOwners(r) \subseteq {owner[r]}
  /\ \A c \in GateCalls :
       GateDone(c) /\ gate[c].mode = "create" =>
         gate[c].result =
           (IF owner[gate[c].res] = gate[c].user THEN "Allowed" ELSE "Denied")

\* C6's case: two creates by different users for one resource both loaded
\* no record; one was allowed and the other, having lost the compare-and-
\* set, was denied
C6_Witness ==
  \E c, d \in GateCalls :
    /\ GateDone(c) /\ GateDone(d)
    /\ gate[c].mode = "create" /\ gate[d].mode = "create"
    /\ gate[c].res = gate[d].res /\ gate[c].user # gate[d].user
    /\ gate[c].seen = NoOwner /\ gate[d].seen = NoOwner
    /\ gate[c].result = "Allowed"
    /\ gate[d].raced /\ gate[d].result = "Denied"

CacheDone(c) == cache[c].pc = "done"

\* C2: getToken never returns a CachedToken with expires_at <= now + safety
\* margin, for any user and resource and after any logins, refreshes, OBO
\* exchanges and clock advances; a token is served from the loaded record
\* without a provider call only if it is the record's token and usable.
C2_NeverReturnsExpiringToken ==
  [][\A c \in CacheCalls :
       cache[c].pc # "done" /\ cache'[c].pc = "done"
         /\ cache'[c].result[1] = "ok"
       => /\ cache'[c].result[2].exp > now' + SafetyMargin
          /\ cache[c].pc \in {"load", "reload"}
               => cache'[c].result[2] = store[cache[c].user].toks[cache[c].res]]_vars

\* C2's case: after the clock advanced past the first token's usable time,
\* one call returned a token it had refreshed and another was served that
\* token from the record
C2_Witness ==
  \E c, d \in CacheCalls :
    /\ CacheDone(c) /\ cache[c].result[1] = "ok" /\ cache[c].wrote
    /\ cache[c].result[2].exp > Lifetime
    /\ CacheDone(d) /\ cache[d].result[1] = "ok" /\ ~cache[d].wrote
    /\ ~cache[d].retried
    /\ cache[d].result[2].exp > Lifetime

\* C7: every write of a TokenCacheRecord is a compare-and-set on the version
\* tag: each successful write was based on the version it replaced, so no
\* two writers that loaded the same version both persist their tokens and
\* no newer record is overwritten; a writer whose tag was stale has not
\* written, and goes on from a record at least as new as the winner's.
C7_CompareAndSetWrites ==
  /\ \A u \in CacheUsers :
       /\ store[u].ver = Len(wlog[u])
       /\ \A i \in 1..Len(wlog[u]) : wlog[u][i] = i - 1
  /\ \A c \in CacheCalls :
       /\ cache[c].pc = "reload"
            => cache[c].lostTo > cache[c].rec.ver
               /\ store[cache[c].user].ver >= cache[c].lostTo
       /\ cache[c].retried /\ cache[c].pc \in {"refresh", "obo", "persist"}
            => cache[c].rec.ver >= cache[c].lostTo

\* C7's case: two calls for the same user and resource both led an exchange;
\* one persisted its token, the other lost the compare-and-set, reloaded and
\* returned the winner's token
C7_Witness ==
  \E c, d \in CacheCalls :
    /\ c # d /\ CacheDone(c) /\ CacheDone(d)
    /\ cache[c].user = cache[d].user /\ cache[c].res = cache[d].res
    /\ cache[c].wrote /\ cache[c].result[1] = "ok"
    /\ cache[d].retried /\ ~cache[d].wrote
    /\ cache[d].result = cache[c].result

\* ------------------------------------------------------------------- Chat
\* a call of the given kind is in flight
ChatInFlight(kind) == {c \in CallIds : calls[c].kind = kind}

\* this step is the arrival of an answer to GET /auth/tokens, of one of the
\* given outcomes
TokensAnswered(outcomes) ==
  \E n \in CallIds, outcome \in outcomes : ChatTokensResponse(n, outcome)

\* C11: the client is Authenticated (isAuthenticated = true) only after a
\* successful token fetch for a live session, and once a handleLogout has
\* completed it is Anonymous and is not Authenticated again before a new
\* login, also when the logout request failed.
C11_SessionStateMachine ==
  /\ [][~chat.isAuthenticated /\ chat'.isAuthenticated
          => session /\ TokensAnswered({"ok"})]_vars
  /\ [](obs.loggedOut => ~chat.isAuthenticated)

\* C12: whenever GET /auth/tokens answers 401 (ReauthRequired, or the session
\* is missing or expired), at mount or later in an authenticated chat
\* session, the client shows the sign-in entry point: isAuthenticated is
\* false afterwards.
C12_ReauthShowsSignIn ==
  [][TokensAnswered({"unauthorized"}) => ~chat'.isAuthenticated]_vars

\* C13: a transient failure of the token fetch (network error or 5xx)
\* destroys no session state: the stored tokens and the authenticated state
\* of the client are the same after it as before.
C13_TransientFailureKeepsState ==
  [][TokensAnswered({"unavailable", "throw"})
       => /\ tokenStore' = tokenStore
          /\ chat'.isAuthenticated = chat.isAuthenticated]_vars

\* ------------------------------------------------------------ AuthService
\* call p reaches getTokens in this step
EntersGetTokens(p) ==
  /\ procs'[p].pc \in {"tokens", "retokens"}
  /\ procs'[p].pc # procs[p].pc

\* C14: getTokens always fetches fresh tokens: a getTokens reached while no
\* fetch is in flight starts a new GET /auth/tokens, the promise a getTokens
\* awaits is never one that had completed before it was reached, and the
\* value a token call returns is the result of the promise it awaited.
C14_AlwaysFetchesFresh ==
  /\ [][\A p \in Procs : EntersGetTokens(p) =>
          /\ InFlight = {} => nfetch' = nfetch + 1 /\ procs'[p].aw = nfetch'
          /\ fetches'[procs'[p].aw].state = "pending"
          /\ procs'[p].aw \in InFlight \/ procs'[p].aw = nfetch + 1]_vars
  /\ [](\A p \in Procs : procs[p].op \in TokenOps /\ procs[p].pc = "done"
          => procs[p].ret = TokenCallReturn(procs[p].op, TokensOf(p)))

\* C14's case: a first getTokens left tokens in tokenStore, and a second
\* one, called afterwards, returned the answer to a request of its own,
\* which was not the stored value
C14_Witness ==
  /\ Finished(1, "getTokens") /\ procs[1].aw = 1 /\ fetches[1].ok
  /\ Finished(2, "getTokens") /\ procs[2].aw = 2
  /\ fetches[2].hadTokens /\ ~fetches[2].ok
  /\ procs[2].ret = <<"tokens", Null>>

\* C15: the retry after a 401 takes its auth headers from a GET /auth/tokens
\* request started after the 401 response was received: never from the
\* token set of the first attempt, never from a fetch that was in flight
\* when the 401 arrived.
C15_RetryUsesFreshTokens ==
  [][\A p \in Procs :
       /\ procs[p].pc = "req" /\ procs'[p].pc = "retokens"
            => /\ procs'[p].aw = nfetch + 1 /\ nfetch' = nfetch + 1
               /\ procs'[p].aw \notin InFlight
               /\ fetches[procs'[p].aw].state = "none"
       /\ procs[p].pc = "retokens" /\ procs'[p].pc = "req"
            => /\ procs'[p].aw = procs[p].aw
               /\ fetches'[procs[p].aw].ok
               /\ procs'[p].req =
                    Spread(procs[p].opts,
                           AuthHeaders(Some(TokenData(procs[p].aw)))[1])]_vars

\* C15's case: a call got a 401 while another call's token fetch (number 2)
\* was in flight, and has sent its retry with the tokens of the later fetch
\* number 3 while fetch number 2 is still in flight
C15_Witness ==
  \E p, q \in Procs :
    /\ procs[p].op = "authenticatedFetch" /\ procs[p].sent = 2
    /\ procs[p].aw = 3
    /\ procs[p].req["azure-access-token"] = TokenData(3).access_token
    /\ procs[q].pc = "tokens" /\ procs[q].aw = 2
    /\ fetches[2].state = "pending"

\* C16: every request authenticatedFetch sends to the target url, first
\* attempt and retry, carries both azure-access-token and azure-id-token,
\* taken from one and the same token fetch result and overriding
\* caller-supplied headers of the same name.
C16_EveryRequestCarriesAuthHeaders ==
  \A p \in Procs :
    procs[p].op = "authenticatedFetch" /\ procs[p].sent >= 1
    => /\ {"azure-access-token", "azure-id-token"} \subseteq DOMAIN procs[p].req
       /\ \E k \in FetchIds :
            /\ procs[p].req["azure-access-token"] = TokenData(k).access_token
            /\ procs[p].req["azure-id-token"] = TokenData(k).id_token

\* a message of the user with text k is in the message list
InList(k) ==
  \E i \in DOMAIN chat.messages :
    chat.messages[i].sender = "user" /\ chat.messages[i].content[2] = k

\* C17: every user message sendMessage appends to the message list is
\* delivered to the agent in the end, also when it was sent before the
\* thread was ready or followed by further messages: once the thread is
\* ready, a message of the list is carried by a POST /runs/wait request, now
\* or later, unless a logout empties the list first.
C17_EveryMessageDelivered ==
  \A k \in 1..MaxSends :
    [](InList(k) /\ Truthy(chat.threadId)
         => <>(k \in obs.posted \/ ~InList(k)))

\* a POST /api/threads request is sent in this step
ThreadRequestSent ==
  /\ mounts' = mounts
  /\ \E c \in CallIds :
       calls'[c].kind = "thread" /\ calls'[c].sent = calls[c].sent + 1

\* C18: a Chat instance creates its thread at most once and only when
\* authenticated: POST /api/threads is issued only while isAuthenticated is
\* true and threadId is null, and at most one such request is issued per
\* instance.
C18_ThreadCreatedOnce ==
  [][ThreadRequestSent
       => chat.isAuthenticated /\ chat.threadId = Null /\ ~obs.tposted]_vars

\* the POST /runs/wait requests in flight
RunRequests == {c \in ChatInFlight("run") : calls[c].pc = "req"}

\* C19: at most one agent run is in flight per Chat instance: there are
\* never two POST /runs/wait requests at once, and sendMessage changes
\* nothing when it is called with isLoading = true.
C19_OneRunInFlight ==
  /\ Cardinality(RunRequests) <= 1
  /\ \A text \in InputTexts : sendMessage(chat, TRUE, text) = chat

\* the 'AAD Agent' messages of a message list
AgentMessages(messages) ==
  {i \in 1..Len(messages) : messages[i].sender = "AAD Agent"}

\* deliverMessage call c, which has started a run, is no more after this
\* step
RunGone(c) == calls[c].kind = "run" /\ calls'[c].kind # "run"

\* deliverMessage call c ends in this step: it has run to the end of its
\* finally block.  A page that is left takes its calls with it
RunEnds(c) == RunGone(c) /\ mounts' = mounts

\* this step appends one 'AAD Agent' message to the list, with one of the
\* three contents, and leaves isLoading false and pendingMessage cleared
OneReply ==
  /\ Len(chat'.messages) = Len(chat.messages) + 1
  /\ SubSeq(chat'.messages, 1, Len(chat.messages)) = chat.messages
  /\ chat'.messages[Len(chat'.messages)].sender = "AAD Agent"
  /\ chat'.messages[Len(chat'.messages)].content[1]
       \in {"ai", "No response received", "error"}
  /\ ~chat'.isLoading /\ chat'.pendingMessage = 0

\* C20 as stated: every deliverMessage that starts a run terminates with
\* exactly one 'AAD Agent' message appended to the message list (the
\* agent's last ai message, 'No response received' or the error text), and
\* with isLoading false and pendingMessage cleared, whatever the request
\* did: a run is in flight until the step in which it has done so.
C20_EveryRunTerminatesWithOneReply ==
  /\ [][\A c \in CallIds : RunGone(c) => RunEnds(c) /\ OneReply]_vars
  /\ [](ChatInFlight("run") # {} => <>(ChatInFlight("run") = {}))

\* C20, corrected: every deliverMessage that starts a run terminates unless
\* the browser leaves the page first, and when it terminates it has
\* appended exactly one 'AAD Agent' message (the agent's last ai message,
\* 'No response received' or the error text), and nothing else appends
\* one; isLoading is false and pendingMessage is cleared then, whatever the
\* request did.
C20_RunTerminatesWithOneReply ==
  /\ [][\A c \in CallIds : RunEnds(c) => OneReply]_vars
  /\ [][Cardinality(AgentMessages(chat'.messages))
            > Cardinality(AgentMessages(chat.messages))
          => \E c \in CallIds : RunEnds(c)]_vars
  /\ [](ChatInFlight("run") # {} => <>(ChatInFlight("run") = {}))

\* C20's case: one run ended with the agent's message, a later one with the
\* error text after a request that failed
C20_Witness ==
  /\ Len(chat.messages) = 4
  /\ chat.messages[2].sender = "AAD Agent"
  /\ chat.messages[2].content = <<"ai", 0>>
  /\ chat.messages[4].sender = "AAD Agent"
  /\ chat.messages[4].content = <<"error", 0>>
  /\ ~chat.isLoading /\ chat.pendingMessage = 0
  /\ ChatInFlight("run") = {}

\* call p is suspended in getTokens
Awaiting(p) == procs[p].pc \in {"tokens", "retokens"}

\* C21: every getTokens call resolves in the end and never rejects, whatever
\* the backend does: the promise it awaits is pending and settles, and the
\* call returns a token set or null (time and again no call is left
\* suspended in getTokens); and once no token fetch is in flight
\* refreshPromise is null.
C21_GetTokensSettles ==
  /\ [](InFlight = {} => refreshPromise = 0)
  /\ [](\A p \in Procs :
          /\ Awaiting(p) => procs[p].aw \in InFlight
          /\ Finished(p, "getTokens")
               => /\ procs[p].ret[1] = "tokens"
                  /\ procs[p].ret[2] \in {Null, Some(TokenData(procs[p].aw))})
  /\ []<>(\A p \in Procs : ~Awaiting(p))

\* C21's case: two getTokens calls shared one request, which failed; both
\* have resolved with null, and no marker is left
C21_Witness ==
  /\ Finished(1, "getTokens") /\ Finished(2, "getTokens")
  /\ procs[1].aw = procs[2].aw
  /\ ~fetches[procs[1].aw].ok
  /\ procs[1].ret = <<"tokens", Null>> /\ procs[2].ret = <<"tokens", Null>>
  /\ InFlight = {} /\ refreshPromise = 0

\* C22: nothing of the session survives a logout that races with requests
\* in flight: after handleLogout has completed, and until the page is
\* loaded again or the user sends a new message, a tokenStore that is null
\* stays null and a message list that is empty stays empty, also when a
\* token fetch or an agent run that was started before the logout completes
\* afterwards.
C22_NothingSurvivesLogout ==
  [][obs.loggedOut /\ mounts' = mounts /\ obs'.nsent = obs.nsent
       => /\ tokenStore = Null => tokenStore' = Null
          /\ chat.messages = <<>> => chat'.messages = <<>>]_vars
====
